---------------------------- MODULE Spec2Model ----------------------------
(***************************************************************************)
(* The auto-restart decision engine of the service monitor:                *)
(*   - auto_restart_config, the pid-keyed in-memory policy store           *)
(*     (src/app.py:52), and the durable name-keyed policy map              *)
(*     (src/config_storage.py);                                            *)
(*   - the request handlers configure_auto_restart and set_queue_threshold;*)
(*   - the evaluation loop auto_restart_monitor (queue phase, then         *)
(*     CPU/memory phase);                                                  *)
(*   - the restart threads queue_restart_thread and restart_thread, which  *)
(*     run restart_service_internal (resolve, stop, sleep, start) and then *)
(*     migrate or un-flag the policy entry.                                *)
(*                                                                         *)
(* Every `with auto_restart_lock:` block is one atomic step (the lock      *)
(* makes the blocks mutually exclusive); code between two blocks is a      *)
(* separate step, so other threads interleave there.                       *)
(*                                                                         *)
(* Python dicts are objects.  A policy entry is modelled as a record whose *)
(* DOMAIN is the dict's key set.  A reference held outside the store (the  *)
(* items of configs_to_check, the loop variable config) is modelled as     *)
(*   [k |-> p, v |-> NoVal]  the very object now stored under key p: an    *)
(*                           in-place write through the store is seen;     *)
(*   [k |-> 0, v |-> e]      an object no longer in the store, frozen at e *)
(*                           (nothing can write to it any more).           *)
(*                                                                         *)
(* queue_restart_thread and restart_thread are closures over the local     *)
(* variables of auto_restart_monitor (pid, config, service_name,           *)
(* queue_exceeded): Python closures read the variable's value at the time  *)
(* the closure runs, so these are shared variables of the model and the    *)
(* threads read them when they execute the line, not when they are made.   *)
(***************************************************************************)
EXTENDS Integers, Sequences, FiniteSets, Bags, TLC

(***************************** bounds ***************************************)
\* Pids ever allocated: the two initial processes and the replacements.
MaxPid == 3
\* Configuration requests (accepted or rejected) in one behaviour.
MaxRequests == 1
\* Restart threads launched in one behaviour.
MaxSpawns == 2

(************************* program constants ********************************)
DEFAULT_CPU_THRESHOLD == 80
DEFAULT_MEMORY_THRESHOLD_MB == 1000
DEFAULT_QUEUE_THRESHOLD == 1000
CPU_THRESHOLD_MIN == 1
CPU_THRESHOLD_MAX == 100
MEMORY_THRESHOLD_MIN_MB == 1
MEMORY_THRESHOLD_MAX_MB == 10240
QUEUE_THRESHOLD_MIN == 1
QUEUE_THRESHOLD_MAX == 1000000
RESTART_DELAY_CPU_MEMORY == 120
RESTART_DELAY_QUEUE == 60

(***************************** universe *************************************)
\* Stable service names (executable file names in the configured folder).
Names == {"a.jar", "b.jar"}
\* Python's None for a jar_name.
NoName == "None"
\* The processes running when the engine starts.
InitialNames == (1 :> "a.jar") @@ (2 :> "b.jar")
\* f'pid_{pid}', the durable key used when no name is known.
PidKey(p) == <<"pid_1", "pid_2", "pid_3", "pid_4", "pid_5", "pid_6">>[p]

\* What the environment can report in one reading.
CpuReadings == {10, 50, 85}
MemoryReadings == {500, 1000, 1200}
QueueReadings == {1500}

\* Request payloads of the concurrent specification.
CpuInputs == {50}
MemoryInputs == {1000}
QueueInputs == {1000}
QueueSetterInputs == {2000}
\* The pids the operator reconfigures while the engine runs (the service
\* that has both a queue and CPU/memory readings).
RequestPids == {1}
\* The executables that have a queue of their own.
QueueNames == {"a.jar"}
\* The float NaN, which json.loads reads from a request body that says NaN.
NaN == -1
\* a < b and a > b on Python numbers: False whenever one side is NaN.
Lt(a, b) == a # NaN /\ b # NaN /\ a < b
Gt(a, b) == a # NaN /\ b # NaN /\ a > b
\* Request payloads of the request-only specification: the range ends, NaN.
CpuInputsWide == {0, 1, 80, 100, 101, NaN}
MemoryInputsWide == {0, 1, 1000, 10240, 10241, NaN}
QueueInputsWide == {0, 1, 1000, 1000000, 1000001, NaN}

(*************************** dict helpers ***********************************)
\* dict.get(k, d)
Get(e, k, d) == IF k \in DOMAIN e THEN e[k] ELSE d
\* d[k] = v on a dict that may or may not have the key
Put(f, k, v) == [x \in DOMAIN f \cup {k} |-> IF x = k THEN v ELSE f[x]]
\* del d[k]
Del(f, k) == [x \in DOMAIN f \ {k} |-> f[x]]
\* Mutant of PopRestarting: the copy is saved with the flag.
KeepRestarting(e) == e

\* persistent_data = config_data.copy(); persistent_data.pop('restarting', None)
PopRestarting(e) == [x \in DOMAIN e \ {"restarting"} |-> e[x]]
\* Python truthiness of a threshold read with .get(k): None and 0 are false.
Absent == 0

NoVal == [none |-> TRUE]
NoRef == [k |-> 0, v |-> NoVal]

VARIABLES
    alive,                  \* pids of the processes now running
    nameOf,                 \* pid -> service name, for every pid ever allocated
    auto_restart_config,    \* pid -> policy entry (src/app.py:52)
    persistent,             \* durable map: name -> policy without 'restarting'
    requests,               \* configuration requests handled so far
    response,               \* status of the last configuration response
    request,                \* the last configuration request: handler and JSON body
    response_config,        \* the 'config' member of the last response body
    pc,                     \* position of the evaluation loop
    queue_message_counts,   \* this cycle's {executable name: message count}
    running_services,       \* services the queue phase has still to visit
    configs_to_check,       \* items the CPU/memory phase has still to visit
    pid,                    \* loop variable (read by the restart closures)
    config,                 \* loop variable (read by restart_thread)
    service_name,           \* loop variable (read by queue_restart_thread)
    queue_threshold,        \* loop variable of the queue phase
    queue_exceeded,         \* loop variable (read by restart_thread)
    tasks,                  \* bag of running restart threads
    spawned,                \* threads that have begun a restart so far
    cycle_restarts,         \* history: pids a thread was launched for this cycle
    stale_at_poll,          \* history: entries of dead pids when the cycle began
    msmq_available,         \* queue telemetry usable (set once at start-up)
    config_file,            \* content of monitor_config.json (src/config_storage.py:13)
    storage_call,           \* the last call of a config_storage function
    writers                 \* request threads inside a writing config_storage function

vars == <<alive, nameOf, auto_restart_config, persistent, requests, response,
          request, response_config,
          pc, queue_message_counts, running_services, configs_to_check,
          pid, config, service_name, queue_threshold, queue_exceeded,
          tasks, spawned, cycle_restarts, stale_at_poll, msmq_available,
          config_file, storage_call, writers>>

\* The file of config_storage is written out in SpecStorage; the other
\* specifications work on `persistent`, the policy map load_config() yields.
\* SpecWriters runs the writing functions statement by statement in two
\* request threads.
fileVars == <<config_file, storage_call, writers>>

procVars == <<alive, nameOf>>
loopVars == <<pc, queue_message_counts, running_services, configs_to_check,
              pid, config, service_name, queue_threshold, queue_exceeded>>
reqVars == <<requests, response, request, response_config>>

(************************** references **************************************)
\* The dict a reference denotes.
Deref(r) == IF r.k # 0 THEN auto_restart_config[r.k] ELSE r.v
\* The object stored under key p leaves the store (replaced or deleted):
\* references to it keep its last contents.
Detach(r, p) ==
    IF r.k = p /\ p \in DOMAIN auto_restart_config
    THEN [k |-> 0, v |-> auto_restart_config[p]] ELSE r
\* The object stored under key p is re-inserted under key q.
Move(r, p, q) == IF r.k = p THEN [k |-> q, v |-> NoVal] ELSE r
DetachAll(s, p) == [i \in DOMAIN s |-> [pid |-> s[i].pid, ref |-> Detach(s[i].ref, p)]]
MoveAll(s, p, q) == [i \in DOMAIN s |-> [pid |-> s[i].pid, ref |-> Move(s[i].ref, p, q)]]


(***************************** start-up **************************************)
EmptyDict == [x \in {} |-> NoVal]

(************************* the configuration file ****************************)
\* The service names, policies and folder paths the storage functions are
\* called with.
StorageNames == {"a.jar", "b.jar"}
StoragePolicies ==
    {[enabled |-> TRUE, cpu_threshold |-> 85, memory_threshold_mb |-> 1500,
      jar_name |-> "a.jar"],
     [enabled |-> FALSE, queue_threshold |-> 1000, jar_name |-> "b.jar"]}
StoragePaths == {"C:/jars", "D:/jars"}

\* monitor_config.json does not exist.
NoFile == [state |-> "absent", members |-> {}]
\* The file holds something json.load rejects (a write that broke off).
CorruptFile == [state |-> "corrupt", members |-> {}]
\* The file holds a JSON document: an object, as its set of members.
JsonFile(members) == [state |-> "json", members |-> members]

\* json.dump of a dict of scalars: one member <<key, value>> per key.
JsonObject(d) == {<<k, d[k]>> : k \in DOMAIN d}
\* json.load of an object of scalars.
JsonDict(m) == [k \in {x[1] : x \in m} |-> (CHOOSE x \in m : x[1] = k)[2]]

\* json.dump(config, f): the 'auto_restart' member is an object of objects.
json_dump(c) ==
    {<<k, IF k = "auto_restart"
          THEN {<<n, JsonObject(c[k][n])>> : n \in DOMAIN c[k]}
          ELSE c[k]>> : k \in DOMAIN c}

\* json.load(f)
json_load(m) ==
    [k \in {x[1] : x \in m} |->
        LET v == (CHOOSE x \in m : x[1] = k)[2]
        IN IF k = "auto_restart"
           THEN [n \in {y[1] : y \in v} |->
                    JsonDict((CHOOSE y \in v : y[1] = n)[2])]
           ELSE v]

DefaultConfig == [auto_restart |-> EmptyDict, folder_path |-> NoName]

\* Mutant of load_config: the file is never read.
load_config_defaults(file) == DefaultConfig

\* load_config(): the defaults when the file is missing or json.load raises,
\* else the document with the two keys ensured.
load_config(file) ==
    IF file.state # "json" THEN DefaultConfig
    ELSE LET c == json_load(file.members)
         IN [auto_restart |-> Get(c, "auto_restart", EmptyDict),
             folder_path |-> Get(c, "folder_path", NoName)]

\* save_config(config): what the file holds afterwards and what is returned.
\* open(CONFIG_FILE, 'w') can fail (file untouched), json.dump can fail after
\* the file was truncated; both are caught and answered with False.
save_config(file, c) ==
    {[file |-> JsonFile(json_dump(c)), ret |-> TRUE],
     [file |-> file, ret |-> FALSE],
     [file |-> CorruptFile, ret |-> FALSE]}

\* get_auto_restart_config_by_name(service_name); None is NoVal.
get_auto_restart_config_by_name(file, name) ==
    Get(load_config(file).auto_restart, name, NoVal)

\* get_folder_path(); None is NoName.
get_folder_path(file) == load_config(file).folder_path

NoCall == [fn |-> "none"]

\* The request threads that can be inside a writing function at a time.
Writers == {1, 2}

\* A request thread that is in no config_storage function.
IdleWriter ==
    [pc |-> "idle", fn |-> "none", target |-> NoName, arg |-> NoVal,
     config |-> DefaultConfig, ret |-> FALSE]

NoWriters == [w \in Writers |-> IdleWriter]

storageFrame ==
    UNCHANGED <<procVars, loopVars, reqVars, auto_restart_config, persistent,
                tasks, spawned, cycle_restarts, stale_at_poll, msmq_available>>

\* save_auto_restart_config(service_name, config_data)
StorageSave ==
    /\ storageFrame
    /\ UNCHANGED writers
    /\    \E name \in StorageNames, config_data \in StoragePolicies :
      LET c == load_config(config_file)
          saved == [c EXCEPT !.auto_restart = Put(c.auto_restart, name, config_data)]
      IN \E o \in save_config(config_file, saved) :
           /\ config_file' = o.file
           /\ storage_call' = [fn |-> "save_auto_restart_config", name |-> name,
                               arg |-> config_data, ret |-> o.ret]

\* delete_auto_restart_config(service_name)
StorageDelete ==
    /\ storageFrame
    /\ UNCHANGED writers
    /\    \E name \in StorageNames :
      LET c == load_config(config_file)
      IN IF name \in DOMAIN c.auto_restart
         THEN \E o \in save_config(config_file,
                                   [c EXCEPT !.auto_restart = Del(c.auto_restart, name)]) :
                /\ config_file' = o.file
                /\ storage_call' = [fn |-> "delete_auto_restart_config",
                                    name |-> name, ret |-> o.ret]
         ELSE /\ config_file' = config_file
              /\ storage_call' = [fn |-> "delete_auto_restart_config",
                                  name |-> name, ret |-> TRUE]

\* save_folder_path(folder_path)
StorageSaveFolder ==
    /\ storageFrame
    /\ UNCHANGED writers
    /\    \E folder_path \in StoragePaths :
      LET c == load_config(config_file)
      IN \E o \in save_config(config_file, [c EXCEPT !.folder_path = folder_path]) :
           /\ config_file' = o.file
           /\ storage_call' = [fn |-> "save_folder_path", arg |-> folder_path,
                               ret |-> o.ret]

\* A call of get_auto_restart_config_by_name.
StorageGet ==
    /\ storageFrame
    /\ UNCHANGED writers
    /\    \E name \in StorageNames :
      /\ config_file' = config_file
      /\ storage_call' = [fn |-> "get_auto_restart_config_by_name", name |-> name,
                          ret |-> get_auto_restart_config_by_name(config_file, name)]

\* A call of get_folder_path.
StorageGetFolder ==
    /\ storageFrame
    /\ UNCHANGED writers
    /\ config_file' = config_file
    /\ storage_call' = [fn |-> "get_folder_path", ret |-> get_folder_path(config_file)]

(************************ configuration requests *****************************)
\* auto_restart_config.get(pid, {})
Existing(p) ==
    IF p \in DOMAIN auto_restart_config THEN auto_restart_config[p] ELSE EmptyDict

\* monitor.get_service_details(pid): None for a pid that is not running.
\* service_name = jar_name or details.service_name or f'pid_{pid}'
ServiceName(p, jar_name) ==
    IF jar_name # NoName THEN jar_name
    ELSE IF p \in alive THEN nameOf[p] ELSE PidKey(p)

\* The three range checks of configure_auto_restart.
ThresholdsValid(cpu_threshold, memory_threshold_mb, q) ==
    /\ ~(Lt(cpu_threshold, CPU_THRESHOLD_MIN) \/ Gt(cpu_threshold, CPU_THRESHOLD_MAX))
    /\ ~(Lt(memory_threshold_mb, MEMORY_THRESHOLD_MIN_MB)
         \/ Gt(memory_threshold_mb, MEMORY_THRESHOLD_MAX_MB))
    /\ ~(Lt(q, QUEUE_THRESHOLD_MIN) \/ Gt(q, QUEUE_THRESHOLD_MAX))

\* The range check of set_queue_threshold.
QueueThresholdValid(q) ==
    ~(Lt(q, QUEUE_THRESHOLD_MIN) \/ Gt(q, QUEUE_THRESHOLD_MAX))

\* int(queue_threshold) raises ValueError on NaN (float() takes it); the
\* handler's `except Exception` answers with an error.
IntRaises(q) == q = NaN

\* config_data of the enabled branch.
EnabledEntry(existing_config, cpu_threshold, memory_threshold_mb, q, jar_name) ==
    [enabled |-> TRUE,
     cpu_threshold |-> cpu_threshold,
     memory_threshold_mb |-> memory_threshold_mb,
     queue_threshold |-> q,
     jar_name |-> IF jar_name # NoName THEN jar_name
                  ELSE Get(existing_config, "jar_name", NoName),
     restarting |-> Get(existing_config, "restarting", FALSE)]

\* Mutant of DisabledEntry: the disable forgets the queue threshold.
DisabledEntryDefault(existing_config, jar_name) ==
    [enabled |-> FALSE,
     queue_threshold |-> DEFAULT_QUEUE_THRESHOLD + 1,
     jar_name |-> jar_name,
     restarting |-> FALSE]

\* The reduced entry a disable leaves when a queue threshold exists.
DisabledEntry(existing_config, jar_name) ==
    [enabled |-> FALSE,
     queue_threshold |-> existing_config["queue_threshold"],
     jar_name |-> IF jar_name # NoName THEN jar_name
                  ELSE Get(existing_config, "jar_name", NoName),
     restarting |-> FALSE]

\* Mutant of QueueThresholdEntry: the CPU/memory fields are reset.
QueueThresholdEntryReset(existing_config, q, jar_name) ==
    [enabled |-> FALSE,
     cpu_threshold |-> DEFAULT_CPU_THRESHOLD,
     memory_threshold_mb |-> DEFAULT_MEMORY_THRESHOLD_MB,
     queue_threshold |-> q,
     jar_name |-> jar_name,
     restarting |-> Get(existing_config, "restarting", FALSE)]

\* config_data of set_queue_threshold.
QueueThresholdEntry(existing_config, q, jar_name) ==
    [enabled |-> Get(existing_config, "enabled", FALSE),
     cpu_threshold |-> Get(existing_config, "cpu_threshold", DEFAULT_CPU_THRESHOLD),
     memory_threshold_mb |->
         Get(existing_config, "memory_threshold_mb", DEFAULT_MEMORY_THRESHOLD_MB),
     queue_threshold |-> q,
     jar_name |-> IF jar_name # NoName THEN jar_name
                  ELSE Get(existing_config, "jar_name", NoName),
     restarting |-> Get(existing_config, "restarting", FALSE)]

\* The policy the operator set for a service before the loop's first cycle:
\* what configure_auto_restart(enabled=true) stores on an empty store.
InitialPolicy(name) ==
    EnabledEntry(EmptyDict, 50, DEFAULT_MEMORY_THRESHOLD_MB,
                 DEFAULT_QUEUE_THRESHOLD, name)

\* No request has been made yet.
NoRequest ==
    [handler |-> "none", pid |-> 0, enabled |-> FALSE, cpu_threshold |-> 0,
     memory_threshold_mb |-> 0, queue_threshold |-> 0]

Init ==
    /\ alive = DOMAIN InitialNames
    /\ nameOf = InitialNames
    /\ \E P \in SUBSET DOMAIN InitialNames :
         /\ auto_restart_config = [p \in P |-> InitialPolicy(InitialNames[p])]
         /\ persistent =
               [n \in {InitialNames[p] : p \in P} |->
                    PopRestarting(InitialPolicy(n))]
    /\ requests = 0
    /\ response = "none"
    /\ request = NoRequest
    /\ response_config = NoVal
    /\ pc = "sleep"
    /\ queue_message_counts = EmptyDict
    /\ running_services = <<>>
    /\ configs_to_check = <<>>
    /\ pid = 0
    /\ config = NoRef
    /\ service_name = NoName
    /\ queue_threshold = DEFAULT_QUEUE_THRESHOLD
    /\ queue_exceeded = FALSE
    /\ tasks = EmptyBag
    /\ spawned = 0
    /\ cycle_restarts = {}
    /\ stale_at_poll = {}
    /\ msmq_available \in BOOLEAN
    /\ config_file = NoFile
    /\ storage_call = NoCall
    /\ writers = NoWriters

\* Mutant of HoldsLock: the restart is done inside `with auto_restart_lock`.
HoldsLockWhileRestarting(t) == t.pc \in {"stop", "cooldown"}

\* A restart thread is inside a `with auto_restart_lock` block.  Its only
\* blocks are the store updates after restart_service_internal has returned,
\* each a single step here: between its steps (before monitor.stop_service,
\* in time.sleep, before monitor.start_service) it holds nothing.
HoldsLock(t) == FALSE

\* auto_restart_lock can be acquired.
LockFree == \A t \in BagToSet(tasks) : ~HoldsLock(t)

\* auto_restart_config[p] = e: the dict stored before (if any) leaves the store.
StoreEntry(p, e) ==
    /\ LockFree
    /\ auto_restart_config' = Put(auto_restart_config, p, e)
    /\ config' = Detach(config, p)
    /\ configs_to_check' = DetachAll(configs_to_check, p)

\* del auto_restart_config[p]
DeleteEntry(p) ==
    /\ LockFree
    /\ auto_restart_config' = Del(auto_restart_config, p)
    /\ config' = Detach(config, p)
    /\ configs_to_check' = DetachAll(configs_to_check, p)

\* save_auto_restart_config(service_name, persistent_data)
save_auto_restart_config(name, persistent_data) ==
    persistent' = Put(persistent, name, persistent_data)

\* delete_auto_restart_config(service_name)
delete_auto_restart_config(name) ==
    persistent' = Del(persistent, name)

reqFrame == UNCHANGED <<procVars, pc, queue_message_counts, running_services,
                        pid, service_name, queue_threshold, queue_exceeded,
                        tasks, spawned, cycle_restarts, stale_at_poll, msmq_available, fileVars>>

\* POST /api/service/<pid>/auto-restart
configure_auto_restart(p, enabled, cpu_threshold, memory_threshold_mb, q, jar_name) ==
    /\ requests < MaxRequests
    /\ requests' = requests + 1
    /\ request' = [handler |-> "configure_auto_restart", pid |-> p,
                   enabled |-> enabled, cpu_threshold |-> cpu_threshold,
                   memory_threshold_mb |-> memory_threshold_mb,
                   queue_threshold |-> q]
    /\ reqFrame
    /\ IF \/ ~ThresholdsValid(cpu_threshold, memory_threshold_mb, q)
          \/ enabled /\ IntRaises(q)
       THEN /\ response' = "error"
            /\ response_config' = NoVal
            /\ UNCHANGED <<auto_restart_config, persistent, config, configs_to_check>>
       ELSE /\ response' = "ok"
            \* 'config': ... if enabled else {}; the enabled case is read later
            /\ response_config' = IF enabled THEN NoVal ELSE EmptyDict
            /\ LET existing_config == Existing(p)
                   name == ServiceName(p, jar_name)
               IN IF enabled
                  THEN LET config_data ==
                               EnabledEntry(existing_config, cpu_threshold,
                                            memory_threshold_mb, q, jar_name)
                       IN /\ StoreEntry(p, config_data)
                          /\ save_auto_restart_config(name, PopRestarting(config_data))
                  ELSE IF p \in DOMAIN auto_restart_config
                       THEN IF Get(existing_config, "queue_threshold", Absent) # Absent
                            THEN LET reduced == DisabledEntry(existing_config, jar_name)
                                 IN /\ StoreEntry(p, reduced)
                                    /\ save_auto_restart_config(name, PopRestarting(reduced))
                            ELSE /\ DeleteEntry(p)
                                 /\ delete_auto_restart_config(name)
                       ELSE /\ delete_auto_restart_config(name)
                            /\ UNCHANGED <<auto_restart_config, config, configs_to_check>>

\* POST /api/service/<pid>/queue-threshold
set_queue_threshold(p, q, jar_name) ==
    /\ requests < MaxRequests
    /\ requests' = requests + 1
    /\ request' = [NoRequest EXCEPT !.handler = "set_queue_threshold", !.pid = p,
                                    !.queue_threshold = q]
    /\ reqFrame
    /\ IF ~QueueThresholdValid(q) \/ IntRaises(q)
       THEN /\ response' = "error"
            /\ response_config' = NoVal
            /\ UNCHANGED <<auto_restart_config, persistent, config, configs_to_check>>
       ELSE /\ response' = "ok"
            /\ LET config_data == QueueThresholdEntry(Existing(p), q, jar_name)
               IN /\ StoreEntry(p, config_data)
                  /\ response_config' = config_data
                  /\ save_auto_restart_config(ServiceName(p, jar_name),
                                              PopRestarting(config_data))

\* The return statement of configure_auto_restart after a successful enabling
\* request: 'config': auto_restart_config.get(pid, {}), evaluated after the
\* `with auto_restart_lock` block has been left.
ConfigureRespond ==
    /\ request.handler = "configure_auto_restart"
    /\ request.enabled
    /\ response = "ok"
    /\ response_config = NoVal
    /\ response_config' = Existing(request.pid)
    /\ UNCHANGED <<procVars, loopVars, auto_restart_config, persistent,
                   requests, response, request, tasks, spawned,
                   cycle_restarts, stale_at_poll, msmq_available, fileVars>>

\* config_copy = persistent_config_data.copy(); config_copy['restarting'] = False
Promoted(persistent_config_data) == Put(persistent_config_data, "restarting", FALSE)

\* The pids the listing loads a durable entry for: running, without an entry
\* in the store, and with a non-empty durable entry under their service name.
Promotable ==
    {p \in alive : /\ p \notin DOMAIN auto_restart_config
                   /\ Get(persistent, nameOf[p], EmptyDict) # EmptyDict}

\* GET /api/services: the `with auto_restart_lock` block that attaches a
\* policy to every listed service, loading it from the durable map by
\* service name when the store has none for the pid.
get_services ==
    /\ LockFree
    /\ auto_restart_config' =
          [p \in DOMAIN auto_restart_config \cup Promotable |->
              IF p \in DOMAIN auto_restart_config THEN auto_restart_config[p]
              ELSE Promoted(persistent[nameOf[p]])]
    /\ UNCHANGED <<procVars, loopVars, persistent, reqVars, tasks, spawned,
                   cycle_restarts, stale_at_poll, msmq_available, fileVars>>

(************************** the evaluation loop ******************************)
RECURSIVE Ascending(_)
\* A finite set of pids as a list, in ascending order (the listing's order).
Ascending(S) ==
    IF S = {} THEN <<>>
    ELSE LET m == CHOOSE x \in S : \A y \in S : x <= y
         IN <<m>> \o Ascending(S \ {m})

\* What the telemetry read of one cycle can yield: nothing when MSMQ is not
\* available, else a message count for each queue matched to an executable.
QueueSnapshots ==
    IF msmq_available
    THEN UNION {[M -> QueueReadings] : M \in SUBSET QueueNames}
    ELSE {EmptyDict}

\* Mutant of QueuePhaseRuns: the queue phase runs in every cycle.
QueuePhaseRunsAlways(counts) == TRUE

\* `if msmq_available and platform.system() == 'Windows' and queue_message_counts`
QueuePhaseRuns(counts) == msmq_available /\ DOMAIN counts # {}

\* The breach test of the queue phase.
QueueBreach(counts, name, threshold) ==
    name \in DOMAIN counts /\ counts[name] >= threshold

\* Mutant of QueueSkip: the guard of the queue phase is dropped.
QueueSkipNever(existing_config) == FALSE

\* `if existing_config.get('restarting', False): continue`
QueueSkip(existing_config) == Get(existing_config, "restarting", FALSE)

\* `if not config.get('enabled', False) or config.get('restarting', False): continue`
CpuSkip(cfg) == ~Get(cfg, "enabled", FALSE) \/ Get(cfg, "restarting", FALSE)

cpu_exceeded(cfg, cpu_percent) ==
    cpu_percent >= Get(cfg, "cpu_threshold", DEFAULT_CPU_THRESHOLD)

memory_exceeded(cfg, memory_mb) ==
    memory_mb >= Get(cfg, "memory_threshold_mb", DEFAULT_MEMORY_THRESHOLD_MB)

\* Mutant of AdHocEntry: the entry the queue phase creates is an enabled one.
AdHocEntryEnabled(threshold, name) ==
    [enabled |-> TRUE, queue_threshold |-> threshold,
     jar_name |-> name, restarting |-> TRUE]

\* The minimal entry the queue phase creates for a pid without one.
AdHocEntry(threshold, name) ==
    [enabled |-> FALSE, queue_threshold |-> threshold,
     jar_name |-> name, restarting |-> TRUE]

\* A restart thread just made by threading.Thread(...).start().  origin and
\* cause record the breach that launched it; the thread itself never reads
\* them (it reads the closure variables).
NewTask(kind, origin, cause) ==
    [kind |-> kind, origin |-> origin, cause |-> cause, pc |-> "begin",
     pid |-> 0, jar_name |-> NoName, delay |-> 0, new_pid |-> 0]

Spawn(t) ==
    /\ spawned < MaxSpawns
    /\ spawned' = spawned + 1
    /\ cycle_restarts' = cycle_restarts \cup {t.origin}
    /\ tasks' = tasks (+) SetToBag({t})

\* The store has an entry for p with restarting set.
Restarting(p) == Get(Existing(p), "restarting", FALSE)

\* Entries of pids the Process Inspector reports as not found, with no
\* restart in flight.
Stale ==
    {p \in DOMAIN auto_restart_config :
        /\ p \notin alive
        /\ ~Restarting(p)
        /\ \A t \in BagToSet(tasks) : t.origin # p /\ t.pid # p}

\* time.sleep(AUTO_RESTART_CHECK_INTERVAL), then the telemetry read and
\* monitor.get_all_services().
Poll ==
    /\ pc = "sleep"
    /\ \E counts \in QueueSnapshots :
         /\ queue_message_counts' = counts
         /\ running_services' =
                IF QueuePhaseRuns(counts) THEN Ascending(alive) ELSE <<>>
    /\ pc' = "queue_phase"
    /\ cycle_restarts' = {}
    /\ stale_at_poll' = Stale
    /\ UNCHANGED <<procVars, auto_restart_config, persistent, reqVars,
                   configs_to_check, pid, config, service_name, queue_threshold,
                   queue_exceeded, tasks, spawned, msmq_available, fileVars>>

\* One iteration of the queue phase up to the breach test: the first
\* `with auto_restart_lock:` block and the comparison that follows it.
QueueCheck ==
    /\ pc = "queue_phase"
    /\ LockFree
    /\ running_services # <<>>
    /\ LET p == Head(running_services)
           name == nameOf[p]
           existing_config == Existing(p)
           threshold == Get(existing_config, "queue_threshold", DEFAULT_QUEUE_THRESHOLD)
       IN /\ pid' = p
          /\ service_name' = name
          /\ IF ~QueueSkip(existing_config)
                /\ QueueBreach(queue_message_counts, name, threshold)
             THEN /\ pc' = "queue_mark"
                  /\ queue_threshold' = threshold
                  /\ UNCHANGED running_services
             ELSE /\ running_services' = Tail(running_services)
                  /\ UNCHANGED <<pc, queue_threshold>>
    /\ UNCHANGED <<procVars, auto_restart_config, persistent, reqVars,
                   queue_message_counts, configs_to_check, config,
                   queue_exceeded, tasks, spawned, cycle_restarts, stale_at_poll, msmq_available, fileVars>>

\* The second `with auto_restart_lock:` block of the iteration ("Mark as
\* restarting") and the start of queue_restart_thread.
QueueMark ==
    /\ pc = "queue_mark"
    /\ LockFree
    /\ auto_restart_config' =
          IF pid \notin DOMAIN auto_restart_config
          THEN Put(auto_restart_config, pid, AdHocEntry(queue_threshold, service_name))
          ELSE Put(auto_restart_config, pid,
                   Put(auto_restart_config[pid], "restarting", TRUE))
    /\ Spawn(NewTask("queue", pid, "queue"))
    /\ running_services' = Tail(running_services)
    /\ pc' = "queue_phase"
    /\ queue_threshold' = DEFAULT_QUEUE_THRESHOLD   \* dead until assigned again
    /\ UNCHANGED <<procVars, persistent, reqVars, queue_message_counts,
                   configs_to_check, pid, config, service_name,
                   queue_exceeded, stale_at_poll, msmq_available, fileVars>>

\* `with auto_restart_lock: configs_to_check = list(auto_restart_config.items())`
Snapshot ==
    /\ pc = "queue_phase"
    /\ LockFree
    /\ running_services = <<>>
    /\ configs_to_check' =
          LET ps == Ascending(DOMAIN auto_restart_config)
          IN [i \in DOMAIN ps |-> [pid |-> ps[i], ref |-> [k |-> ps[i], v |-> NoVal]]]
    /\ pc' = "cpu_phase"
    /\ UNCHANGED <<procVars, auto_restart_config, persistent, reqVars,
                   queue_message_counts, running_services, pid, config,
                   service_name, queue_threshold, queue_exceeded, tasks,
                   spawned, cycle_restarts, stale_at_poll, msmq_available, fileVars>>

\* One iteration of the CPU/memory phase up to its decision: the skip test,
\* monitor.get_service_details(pid) and the three comparisons.
CpuCheck ==
    /\ pc = "cpu_phase"
    /\ configs_to_check # <<>>
    /\ LET item == Head(configs_to_check)
           cfg == Deref(item.ref)
       IN /\ pid' = item.pid
          /\ config' = item.ref
          /\ IF CpuSkip(cfg)
             THEN /\ configs_to_check' = Tail(configs_to_check)
                  /\ UNCHANGED <<pc, service_name, queue_exceeded>>
             ELSE IF item.pid \notin alive
             THEN /\ pc' = "cpu_delete"
                  /\ UNCHANGED <<configs_to_check, service_name, queue_exceeded>>
             ELSE \E cpu_percent \in CpuReadings, memory_mb \in MemoryReadings :
                    LET q == QueueBreach(queue_message_counts, nameOf[item.pid],
                                 Get(cfg, "queue_threshold", DEFAULT_QUEUE_THRESHOLD))
                    IN /\ service_name' = nameOf[item.pid]
                       /\ queue_exceeded' = q
                       /\ IF cpu_exceeded(cfg, cpu_percent)
                             \/ memory_exceeded(cfg, memory_mb) \/ q
                          THEN pc' = "cpu_mark" /\ UNCHANGED configs_to_check
                          ELSE /\ configs_to_check' = Tail(configs_to_check)
                               /\ UNCHANGED pc
    /\ UNCHANGED <<procVars, auto_restart_config, persistent, reqVars,
                   queue_message_counts, running_services, queue_threshold,
                   tasks, spawned, cycle_restarts, stale_at_poll, msmq_available, fileVars>>

\* Mutant of DurableAfterPidChange: the durable entry goes with the pid.
DurableDeletedWithPid(durable, name) == Del(durable, name)

\* The durable map after the loop has removed a stale pid's entry or a
\* thread has moved an entry to the new pid: those blocks call neither
\* save_auto_restart_config nor delete_auto_restart_config.
DurableAfterPidChange(durable, name) == durable

\* "Service no longer exists, remove from config"
CpuDelete ==
    /\ pc = "cpu_delete"
    /\ LockFree
    /\ IF pid \in DOMAIN auto_restart_config
       THEN /\ auto_restart_config' = Del(auto_restart_config, pid)
            /\ config' = Detach(config, pid)
            /\ configs_to_check' = Tail(DetachAll(configs_to_check, pid))
       ELSE /\ configs_to_check' = Tail(configs_to_check)
            /\ UNCHANGED <<auto_restart_config, config>>
    /\ pc' = "cpu_phase"
    /\ persistent' = DurableAfterPidChange(persistent, nameOf[pid])
    /\ UNCHANGED <<procVars, reqVars, queue_message_counts,
                   running_services, pid, service_name, queue_threshold,
                   queue_exceeded, tasks, spawned, cycle_restarts, stale_at_poll, msmq_available, fileVars>>

\* "Mark as restarting to prevent multiple restarts" and the start of
\* restart_thread.
CpuMark ==
    /\ pc = "cpu_mark"
    /\ LockFree
    /\ auto_restart_config' =
          IF pid \in DOMAIN auto_restart_config
          THEN Put(auto_restart_config, pid,
                   Put(auto_restart_config[pid], "restarting", TRUE))
          ELSE auto_restart_config
    /\ Spawn(NewTask("cpu", pid, IF queue_exceeded THEN "queue" ELSE "cpu_memory"))
    /\ configs_to_check' = Tail(configs_to_check)
    /\ pc' = "cpu_phase"
    /\ UNCHANGED <<procVars, persistent, reqVars, queue_message_counts,
                   running_services, pid, config, service_name, queue_threshold,
                   queue_exceeded, stale_at_poll, msmq_available, fileVars>>

\* The for loop ends; the while loop goes back to its sleep.
CycleEnd ==
    /\ pc = "cpu_phase"
    /\ configs_to_check = <<>>
    /\ pc' = "sleep"
    /\ UNCHANGED <<procVars, auto_restart_config, persistent, reqVars,
                   queue_message_counts, running_services, configs_to_check,
                   pid, config, service_name, queue_threshold, queue_exceeded,
                   tasks, spawned, cycle_restarts, stale_at_poll, msmq_available, fileVars>>

(************************ failures inside a cycle ****************************)
\* Mutant of AfterError: the loop ends when a cycle raises.
AfterErrorStops == "stopped"

\* Where the loop goes after the `except Exception` handler of the while
\* body: back to the top of `while True`.
AfterError == "sleep"

\* An exception raised before the two phases (the folder scan or
\* monitor.get_all_services() throws): the outer handler logs it.
PollError ==
    /\ pc = "sleep"
    /\ pc' = "error_wait"
    /\ cycle_restarts' = {}
    /\ stale_at_poll' = {}
    /\ UNCHANGED <<procVars, auto_restart_config, persistent, reqVars,
                   queue_message_counts, running_services, configs_to_check,
                   pid, config, service_name, queue_threshold, queue_exceeded,
                   tasks, spawned, msmq_available, fileVars>>

\* An exception raised in an iteration of the queue phase, which has no
\* handler of its own: threading.Thread(...).start() cannot start the thread
\* (RuntimeError) after the entry was marked.  The exception leaves the for
\* loop and reaches the outer handler.
QueueFault ==
    /\ pc = "queue_mark"
    /\ LockFree
    /\ auto_restart_config' =
          IF pid \notin DOMAIN auto_restart_config
          THEN Put(auto_restart_config, pid, AdHocEntry(queue_threshold, service_name))
          ELSE Put(auto_restart_config, pid,
                   Put(auto_restart_config[pid], "restarting", TRUE))
    /\ running_services' = <<>>
    /\ pc' = "error_wait"
    /\ UNCHANGED <<procVars, persistent, reqVars, queue_message_counts,
                   configs_to_check, pid, config, service_name,
                   queue_threshold, queue_exceeded, tasks, spawned,
                   cycle_restarts, stale_at_poll, msmq_available, fileVars>>

\* An exception raised inside the try block of an iteration of the
\* CPU/memory phase (monitor.get_service_details(pid) throws): the inner
\* handler logs it and the for loop goes on.
CpuFault ==
    /\ pc = "cpu_phase"
    /\ configs_to_check # <<>>
    /\ LET item == Head(configs_to_check)
       IN /\ ~CpuSkip(Deref(item.ref))
          /\ pid' = item.pid
          /\ config' = item.ref
    /\ configs_to_check' = Tail(configs_to_check)
    /\ UNCHANGED <<procVars, auto_restart_config, persistent, reqVars, pc,
                   queue_message_counts, running_services, service_name,
                   queue_threshold, queue_exceeded, tasks, spawned,
                   cycle_restarts, stale_at_poll, msmq_available, fileVars>>

\* time.sleep(AUTO_RESTART_ERROR_RETRY_INTERVAL) in the outer handler.
ErrorWait ==
    /\ pc = "error_wait"
    /\ pc' = AfterError
    /\ UNCHANGED <<procVars, auto_restart_config, persistent, reqVars,
                   queue_message_counts, running_services, configs_to_check,
                   pid, config, service_name, queue_threshold, queue_exceeded,
                   tasks, spawned, cycle_restarts, stale_at_poll, msmq_available, fileVars>>

(*************************** restart threads *********************************)
Replace(t, u) == tasks' = (tasks (-) SetToBag({t})) (+) SetToBag({u})
Remove(t) == tasks' = tasks (-) SetToBag({t})

\* Mutant of DelayOf: every restart sleeps the CPU/memory cooldown.
DelayAlwaysLong(kind, exceeded) == RESTART_DELAY_CPU_MEMORY

\* `delay = RESTART_DELAY_QUEUE if queue_exceeded else RESTART_DELAY_CPU_MEMORY`
\* in restart_thread; queue_restart_thread passes RESTART_DELAY_QUEUE.
DelayOf(kind, exceeded) ==
    IF kind = "queue" \/ exceeded THEN RESTART_DELAY_QUEUE
    ELSE RESTART_DELAY_CPU_MEMORY

\* The jar_name the thread passes on: service_name in queue_restart_thread,
\* config.get('jar_name') in restart_thread.  Both read the closure variable.
JarNameOf(kind) ==
    IF kind = "queue" THEN service_name
    ELSE Get(Deref(config), "jar_name", NoName)

\* The first lines of the thread and the path resolution at the top of
\* restart_service_internal(pid, jar_name, delay_seconds, working_directory):
\* with a jar_name the file is looked up in the folder (found or not); without
\* one the path comes from get_service_details(pid), None for a dead pid.
TaskBegin(t) ==
    /\ t.pc = "begin"
    /\ LET jar_name == JarNameOf(t.kind)
           u == [t EXCEPT !.pid = pid, !.jar_name = jar_name,
                          !.delay = DelayOf(t.kind, queue_exceeded)]
       IN \/ /\ jar_name # NoName \/ pid \in alive
             /\ Replace(t, [u EXCEPT !.pc = "stop"])
          \/ /\ jar_name # NoName \/ pid \notin alive
             /\ Replace(t, [u EXCEPT !.pc = "resolve_failed"])
    /\ UNCHANGED <<procVars, auto_restart_config, persistent, reqVars, loopVars,
                   spawned, cycle_restarts, stale_at_poll, msmq_available, fileVars>>

\* Mutant of AfterStop: the result of the stop is not looked at.
AfterStopProceeds(success) == "cooldown"

\* `if not stop_result['success']: return {'success': False, ...}`, else on
\* to time.sleep(delay_seconds).
AfterStop(success) == IF success THEN "cooldown" ELSE "stop_failed"

\* monitor.stop_service(pid)
TaskStop(t) ==
    /\ t.pc = "stop"
    /\ \/ /\ t.pid \in alive
          /\ alive' = alive \ {t.pid}
          /\ Replace(t, [t EXCEPT !.pc = AfterStop(TRUE)])
       \/ /\ UNCHANGED alive
          /\ Replace(t, [t EXCEPT !.pc = AfterStop(FALSE)])
    /\ UNCHANGED <<nameOf, auto_restart_config, persistent, reqVars, loopVars,
                   spawned, cycle_restarts, stale_at_poll, msmq_available, fileVars>>

\* The name of the executable restart_service_internal resolved.
Resolved(t) == IF t.jar_name # NoName THEN t.jar_name ELSE nameOf[t.pid]

\* The end of time.sleep(delay_seconds), then
\* monitor.start_service(jar_path, working_directory=working_dir).
\* A thread at "cooldown" has stopped the process and is in that sleep.
TaskStart(t) ==
    /\ t.pc = "cooldown"
    /\ \/ /\ Cardinality(DOMAIN nameOf) < MaxPid
          /\ LET n == Cardinality(DOMAIN nameOf) + 1
             IN /\ nameOf' = Put(nameOf, n, Resolved(t))
                /\ alive' = alive \cup {n}
                /\ Replace(t, [t EXCEPT !.pc = "started", !.new_pid = n])
       \/ /\ UNCHANGED procVars
          /\ Replace(t, [t EXCEPT !.pc = "start_failed"])
    /\ UNCHANGED <<auto_restart_config, persistent, reqVars, loopVars,
                   spawned, cycle_restarts, stale_at_poll, msmq_available, fileVars>>

\* The entry queue_restart_thread writes for the new pid.
QueueMigrated(old_config, jar_name) ==
    [enabled |-> Get(old_config, "enabled", FALSE),
     queue_threshold |-> old_config["queue_threshold"],
     jar_name |-> jar_name,
     restarting |-> FALSE]

\* The entry restart_thread re-inserts for the new pid: the same dict,
\* with restarting set to False.
CpuMigrated(old_config) == Put(old_config, "restarting", FALSE)

\* The pid whose entry a finishing thread touches: the closure variable.
FinishPid(t) == pid

\* `if result['success']` with a new pid, in queue_restart_thread
QueueSuccess(t) ==
    /\ t.pc = "started" /\ t.kind = "queue"
    /\ LockFree
    /\ LET p == FinishPid(t)
       IN IF p \in DOMAIN auto_restart_config
          THEN LET old_config == auto_restart_config[p]
                   after_del == Del(auto_restart_config, p)
               IN /\ auto_restart_config' =
                        IF Get(old_config, "queue_threshold", Absent) # Absent
                        THEN Put(after_del, t.new_pid,
                                 QueueMigrated(old_config, t.jar_name))
                        ELSE after_del
                  /\ config' = Detach(Detach(config, p), t.new_pid)
                  /\ configs_to_check' =
                        DetachAll(DetachAll(configs_to_check, p), t.new_pid)
          ELSE UNCHANGED <<auto_restart_config, config, configs_to_check>>
    /\ Remove(t)
    /\ persistent' = DurableAfterPidChange(persistent, nameOf[t.new_pid])
    /\ UNCHANGED <<procVars, reqVars, pc, queue_message_counts,
                   running_services, pid, service_name, queue_threshold,
                   queue_exceeded, spawned, cycle_restarts, stale_at_poll, msmq_available, fileVars>>

\* `if result['success']` with a new pid, in restart_thread
CpuSuccess(t) ==
    /\ t.pc = "started" /\ t.kind = "cpu"
    /\ LockFree
    /\ LET p == FinishPid(t)
       IN IF p \in DOMAIN auto_restart_config
          THEN /\ auto_restart_config' =
                     Put(Del(auto_restart_config, p), t.new_pid,
                         CpuMigrated(auto_restart_config[p]))
               /\ config' = Move(Detach(config, t.new_pid), p, t.new_pid)
               /\ configs_to_check' =
                     MoveAll(DetachAll(configs_to_check, t.new_pid), p, t.new_pid)
          ELSE UNCHANGED <<auto_restart_config, config, configs_to_check>>
    /\ Remove(t)
    /\ persistent' = DurableAfterPidChange(persistent, nameOf[t.new_pid])
    /\ UNCHANGED <<procVars, reqVars, pc, queue_message_counts,
                   running_services, pid, service_name, queue_threshold,
                   queue_exceeded, spawned, cycle_restarts, stale_at_poll, msmq_available, fileVars>>

\* The else branch of both threads: the restart failed.
TaskFailed(t) ==
    /\ t.kind # "manual"
    /\ t.pc \in {"resolve_failed", "stop_failed", "start_failed"}
    /\ LockFree
    /\ LET p == FinishPid(t)
       IN auto_restart_config' =
             IF p \in DOMAIN auto_restart_config
             THEN Put(auto_restart_config, p,
                      Put(auto_restart_config[p], "restarting", FALSE))
             ELSE auto_restart_config
    /\ Remove(t)
    /\ UNCHANGED <<procVars, persistent, reqVars, loopVars, spawned, cycle_restarts, stale_at_poll, msmq_available, fileVars>>

(**************************** specification **********************************)

(***************************** manual restart ********************************)
\* Mutant of ManualDelay: the manual restart sleeps the queue cooldown.
ManualDelayShort == RESTART_DELAY_QUEUE

\* delay_seconds=RESTART_DELAY_CPU_MEMORY in restart_service
ManualDelay == RESTART_DELAY_CPU_MEMORY

\* POST /api/service/<pid>/restart, up to the path resolution at the top of
\* restart_service_internal(pid, jar_name, delay_seconds=RESTART_DELAY_CPU_MEMORY).
\* The handler's thread runs the same stop, sleep and start as a restart thread.
restart_service(p, jar_name) ==
    /\ requests < MaxRequests
    /\ requests' = requests + 1
    /\ request' = [NoRequest EXCEPT !.handler = "restart_service", !.pid = p]
    /\ response' = "none"
    /\ response_config' = NoVal
    /\ spawned < MaxSpawns
    /\ spawned' = spawned + 1
    /\ LET u == [NewTask("manual", p, "manual") EXCEPT
                     !.pid = p, !.jar_name = jar_name,
                     !.delay = ManualDelay]
       IN \/ /\ jar_name # NoName \/ p \in alive
             /\ tasks' = tasks (+) SetToBag({[u EXCEPT !.pc = "stop"]})
          \/ /\ jar_name # NoName \/ p \notin alive
             /\ tasks' = tasks (+) SetToBag({[u EXCEPT !.pc = "resolve_failed"]})
    /\ UNCHANGED <<procVars, loopVars, auto_restart_config, persistent,
                   cycle_restarts, stale_at_poll, msmq_available, fileVars>>

\* The response of restart_service: the result of restart_service_internal is
\* returned, the store is not touched.
RestartResponse(t) ==
    /\ t.kind = "manual"
    /\ t.pc \in {"started", "resolve_failed", "stop_failed", "start_failed"}
    /\ Remove(t)
    /\ response' = IF t.pc = "started" THEN "ok" ELSE "error"
    /\ UNCHANGED <<procVars, loopVars, auto_restart_config, persistent,
                   requests, request, response_config, spawned,
                   cycle_restarts, stale_at_poll, msmq_available, fileVars>>

Configure ==
    \E p \in RequestPids, enabled \in BOOLEAN, cpu_threshold \in CpuInputs,
       memory_threshold_mb \in MemoryInputs, q \in QueueInputs :
      \E jar_name \in {nameOf[p]} :
        configure_auto_restart(p, enabled, cpu_threshold, memory_threshold_mb,
                               q, jar_name)

SetQueueThreshold ==
    \E p \in RequestPids, q \in QueueSetterInputs :
      \E jar_name \in {nameOf[p]} :
        set_queue_threshold(p, q, jar_name)

Loop ==
    \/ Poll
    \/ QueueCheck
    \/ QueueMark
    \/ Snapshot
    \/ CpuCheck
    \/ CpuDelete
    \/ CpuMark
    \/ CycleEnd

TaskBegins == \E t \in BagToSet(tasks) : TaskBegin(t)
TaskStops == \E t \in BagToSet(tasks) : TaskStop(t)
TaskStarts == \E t \in BagToSet(tasks) : TaskStart(t)
QueueSucceeds == \E t \in BagToSet(tasks) : QueueSuccess(t)
CpuSucceeds == \E t \in BagToSet(tasks) : CpuSuccess(t)
TaskFails == \E t \in BagToSet(tasks) : TaskFailed(t)

Task ==
    \/ TaskBegins
    \/ TaskStops
    \/ TaskStarts
    \/ QueueSucceeds
    \/ CpuSucceeds
    \/ TaskFails

Next == Configure \/ SetQueueThreshold \/ Loop \/ Task

\* The two configuration requests alone, with thresholds on both sides of
\* every range limit.
ConfigureWide ==
    \E p \in alive, enabled \in BOOLEAN, cpu_threshold \in CpuInputsWide,
       memory_threshold_mb \in MemoryInputsWide, q \in QueueInputsWide :
      \E jar_name \in {nameOf[p]} :
        configure_auto_restart(p, enabled, cpu_threshold, memory_threshold_mb,
                               q, jar_name)

SetQueueThresholdWide ==
    \E p \in alive, q \in QueueInputsWide :
      \E jar_name \in {nameOf[p]} :
        set_queue_threshold(p, q, jar_name)

NextRequests == ConfigureWide \/ SetQueueThresholdWide

Spec == Init /\ [][Next]_vars

\* The enabling request with its response, next to the loop and the restart
\* threads.  (Spec leaves the response body out: building it changes nothing
\* in the store.)
NextResponse == Configure \/ ConfigureRespond \/ Loop \/ Task

SpecResponse == Init /\ [][NextResponse]_vars

\* The state after the engine was started again: the durable map holds the
\* policies saved before, the store is empty.
InitStartup ==
    /\ alive = DOMAIN InitialNames
    /\ nameOf = InitialNames
    /\ auto_restart_config = EmptyDict
    /\ \E P \in SUBSET DOMAIN InitialNames :
         persistent = [n \in {InitialNames[p] : p \in P} |->
                          PopRestarting(InitialPolicy(n))]
    /\ requests = 0
    /\ response = "none"
    /\ request = NoRequest
    /\ response_config = NoVal
    /\ pc = "sleep"
    /\ queue_message_counts = EmptyDict
    /\ running_services = <<>>
    /\ configs_to_check = <<>>
    /\ pid = 0
    /\ config = NoRef
    /\ service_name = NoName
    /\ queue_threshold = DEFAULT_QUEUE_THRESHOLD
    /\ queue_exceeded = FALSE
    /\ tasks = EmptyBag
    /\ spawned = 0
    /\ cycle_restarts = {}
    /\ stale_at_poll = {}
    /\ msmq_available \in BOOLEAN
    /\ config_file = NoFile
    /\ storage_call = NoCall
    /\ writers = NoWriters

GetServices == get_services

RestartService ==
    \E p \in RequestPids : \E jar_name \in {nameOf[p]} : restart_service(p, jar_name)

RestartResponds == \E t \in BagToSet(tasks) : RestartResponse(t)

\* The engine after a start, with the service listing and the manual restart.
NextListing == GetServices \/ RestartService \/ RestartResponds \/ Loop \/ Task

SpecListing == InitStartup /\ [][NextListing]_vars

\* The files the storage functions can find: none, a broken one, and
\* documents with and without the two keys.
InitialFiles ==
    {NoFile, CorruptFile, JsonFile({}),
     JsonFile(json_dump([folder_path |-> "C:/jars"]))}
    \cup {JsonFile(json_dump([auto_restart |-> m, folder_path |-> f])) :
             m \in UNION {[N -> StoragePolicies] : N \in SUBSET StorageNames},
             f \in StoragePaths \cup {NoName}}

\* The functions of config_storage called one after the other on a file.
InitStorage ==
    /\ alive = DOMAIN InitialNames
    /\ nameOf = InitialNames
    /\ auto_restart_config = EmptyDict
    /\ persistent = EmptyDict
    /\ requests = 0
    /\ response = "none"
    /\ request = NoRequest
    /\ response_config = NoVal
    /\ pc = "sleep"
    /\ queue_message_counts = EmptyDict
    /\ running_services = <<>>
    /\ configs_to_check = <<>>
    /\ pid = 0
    /\ config = NoRef
    /\ service_name = NoName
    /\ queue_threshold = DEFAULT_QUEUE_THRESHOLD
    /\ queue_exceeded = FALSE
    /\ tasks = EmptyBag
    /\ spawned = 0
    /\ cycle_restarts = {}
    /\ stale_at_poll = {}
    /\ msmq_available = FALSE
    /\ config_file \in InitialFiles
    /\ storage_call = NoCall
    /\ writers = NoWriters

NextStorage ==
    \/ StorageSave
    \/ StorageDelete
    \/ StorageSaveFolder
    \/ StorageGet
    \/ StorageGetFolder

SpecStorage == InitStorage /\ [][NextStorage]_vars

\* The writing calls a request thread can make: save_folder_path from
\* set_folder_path, save_auto_restart_config and delete_auto_restart_config
\* from the policy handlers.
WriterCalls ==
    {[fn |-> "save_folder_path", target |-> "folder_path", arg |-> f] :
        f \in StoragePaths}
    \cup {[fn |-> "save_auto_restart_config", target |-> n, arg |-> c] :
             n \in StorageNames, c \in StoragePolicies}
    \cup {[fn |-> "delete_auto_restart_config", target |-> n, arg |-> NoVal] :
             n \in StorageNames}

\* The dict the function passes to save_config: what it loaded, with its
\* one change.
Modified(c, call) ==
    CASE call.fn = "save_folder_path" -> [c EXCEPT !.folder_path = call.arg]
      [] call.fn = "save_auto_restart_config" ->
            [c EXCEPT !.auto_restart = Put(c.auto_restart, call.target, call.arg)]
      [] call.fn = "delete_auto_restart_config" ->
            [c EXCEPT !.auto_restart = Del(c.auto_restart, call.target)]

\* `with config_lock:` in save_config: no other thread is between its open
\* and the end of its json.dump.
ConfigLockFree == \A w \in Writers : writers[w].pc # "dump"

\* The policy handlers call save_auto_restart_config and
\* delete_auto_restart_config inside `with auto_restart_lock:`, so no other
\* thread is inside one of the two; set_folder_path takes no lock.
PolicyLockFree(w) ==
    \A v \in Writers \ {w} :
       writers[v].fn = "save_folder_path" \/ writers[v].pc \in {"idle", "done"}

writerFrame == storageFrame /\ UNCHANGED storage_call

\* The first statements of a writing function: config = load_config() and
\* the change of the loaded dict.  load_config takes no lock.
\* delete_auto_restart_config returns True at once for a name not there.
WriterLoad(w) ==
    /\ writers[w].pc = "idle"
    /\ \E call \in WriterCalls :
         LET c == load_config(config_file)
             returns == /\ call.fn = "delete_auto_restart_config"
                        /\ call.target \notin DOMAIN c.auto_restart
         IN /\ call.fn # "save_folder_path" => PolicyLockFree(w)
            /\ writers' = [writers EXCEPT ![w] =
               [pc |-> IF returns THEN "done" ELSE "save",
                fn |-> call.fn, target |-> call.target, arg |-> call.arg,
                config |-> IF returns THEN c ELSE Modified(c, call),
                ret |-> returns]]
    /\ UNCHANGED config_file
    /\ writerFrame

\* save_config up to open(CONFIG_FILE, 'w'): the lock is taken and the file
\* is truncated, or open raises and False is returned.
WriterOpen(w) ==
    /\ writers[w].pc = "save"
    /\ ConfigLockFree
    /\ \/ /\ config_file' = CorruptFile
          /\ writers' = [writers EXCEPT ![w].pc = "dump"]
       \/ /\ config_file' = config_file
          /\ writers' = [writers EXCEPT ![w].pc = "done", ![w].ret = FALSE]
    /\ writerFrame

\* json.dump(config, f, indent=2) and the end of the `with` blocks: True, or
\* False when json.dump raised and left the file broken off.
WriterDump(w) ==
    /\ writers[w].pc = "dump"
    /\ \/ /\ config_file' = JsonFile(json_dump(writers[w].config))
          /\ writers' = [writers EXCEPT ![w].pc = "done", ![w].ret = TRUE]
       \/ /\ config_file' = CorruptFile
          /\ writers' = [writers EXCEPT ![w].pc = "done", ![w].ret = FALSE]
    /\ writerFrame

WriterLoads == \E w \in Writers : WriterLoad(w)
WriterOpens == \E w \in Writers : WriterOpen(w)
WriterDumps == \E w \in Writers : WriterDump(w)

\* Two request threads, each making one writing call on the file.
NextWriters == WriterLoads \/ WriterOpens \/ WriterDumps

SpecWriters == InitStorage /\ [][NextWriters]_vars

\* The loop with the failures a cycle can raise, and the restart threads.
\* The monitor thread is a daemon thread of its own: it is scheduled whenever
\* it can take a step.
Faults ==
    \/ PollError
    \/ QueueFault
    \/ CpuFault
    \/ ErrorWait

NextFaults == Loop \/ Faults \/ Task

SpecFaults == Init /\ [][NextFaults]_vars /\ WF_vars(Loop \/ Faults)

SpecRequests == Init /\ [][NextRequests]_vars

\* An exception raised inside a restart thread while it looks for the
\* executable (os.listdir on the folder, the scan of folder_executables_map):
\* neither thread function nor restart_service_internal has a try block, so
\* the thread ends there and none of its later statements runs.
TaskRaises(t) ==
    /\ t.pc = "begin"
    /\ Remove(t)
    /\ UNCHANGED <<procVars, auto_restart_config, persistent, reqVars, loopVars,
                   spawned, cycle_restarts, stale_at_poll, msmq_available, fileVars>>

TaskRaise == \E t \in BagToSet(tasks) : TaskRaises(t)

\* The loop and the restart threads, each thread with every way it can end.
\* The monitor thread and the restart threads are threads of their own: each
\* is scheduled whenever it can take a step.
NextRestarts == Loop \/ Task \/ TaskRaise

SpecRestarts ==
    Init /\ [][NextRestarts]_vars /\ WF_vars(Loop) /\ WF_vars(Task \/ TaskRaise)

(******************************* claims **************************************)
\* A step of the evaluation loop that launches a restart thread (for pid).
Launches == spawned' # spawned

\* C1 (as stated): one evaluation cycle launches at most one restart thread
\* per pid.
C1_OnePerCycle == [][Launches => pid \notin cycle_restarts]_vars

\* C1 (amended): the loop launches a restart thread for a pid only when the
\* pid's entry does not have restarting=true; so while the flag stays true
\* neither phase of this cycle nor any later cycle launches one for it.
C1_LaunchOnlyWhenNotRestarting == [][Launches => ~Restarting(pid)]_vars

\* C1 witness: the queue phase launched a restart for an enabled pid, the flag
\* is still true, and the CPU/memory phase of the same cycle has visited that
\* pid and gone on without launching another.
C1_Witness ==
    \E t \in BagToSet(tasks) :
        /\ t.kind = "queue" /\ t.origin = pid
        /\ pid \in cycle_restarts
        /\ pc = "cpu_phase" /\ config.k = pid
        /\ Get(Existing(pid), "enabled", FALSE)
        /\ Restarting(pid)
        /\ BagCardinality(tasks) = 1

\* A restart thread that was launched for p, has bound itself to p and is in
\* its stop/cooldown/start sequence on p.
InSequence(t, p) ==
    t.origin = p /\ t.pid = p /\ t.pc \in {"stop", "cooldown"}

\* C2: in every reachable state at most one automatic stop/cooldown/start
\* sequence is in progress for any one pid.
C2_AtMostOneSequence ==
    \A p \in DOMAIN nameOf :
        \A t, u \in BagToSet(tasks) :
            InSequence(t, p) /\ InSequence(u, p) =>
                t = u /\ CopiesIn(t, tasks) = 1

\* The entry of the pid the loop is working on ({} when there is none).
EntryOfPid == Existing(pid)

\* C3: from the loop's read of restarting=false for pid (the step that moves
\* it to "queue_mark" or "cpu_mark") to its write of restarting=true, no other
\* thread changes the entry of pid.
C3_OneCriticalSection ==
    [][(pc \in {"queue_mark", "cpu_mark"} /\ pc' = pc)
          => (EntryOfPid' = EntryOfPid)]_vars

\* The step in which restart thread t ends.
Finishes(t) == t \in BagToSet(tasks) /\ tasks' = tasks (-) SetToBag({t})

\* The four policy fields of an entry that a migration is to carry over.
PolicyFields(e) ==
    <<Get(e, "enabled", Absent), Get(e, "cpu_threshold", Absent),
      Get(e, "memory_threshold_mb", Absent), Get(e, "queue_threshold", Absent)>>

\* C4: when a restart thread launched for P ends after a successful start with
\* new pid Q, the store has no entry for P and an entry for Q with
\* restarting=false and the enabled flag and three thresholds P's entry had
\* just before.
C4_MigrationKeepsPolicy ==
    [][\A t \in BagToSet(tasks) :
          t.pc = "started" /\ Finishes(t) /\ t.origin \in DOMAIN auto_restart_config
          => /\ t.origin \notin DOMAIN auto_restart_config'
             /\ t.new_pid \in DOMAIN auto_restart_config'
             /\ ~auto_restart_config'[t.new_pid]["restarting"]
             /\ PolicyFields(auto_restart_config'[t.new_pid])
                    = PolicyFields(auto_restart_config[t.origin])]_vars

\* C5: configure_auto_restart with cpu_threshold outside [1,100],
\* memory_threshold_mb outside [1,10240] or queue_threshold outside
\* [1,1000000], and set_queue_threshold with queue_threshold outside
\* [1,1000000], answer with an error and leave the in-memory store and the
\* durable map as they were.  (NaN is no member of any of the ranges.)
C5_OutOfRangeRejected ==
    [][requests' # requests
       /\ \/ /\ request'.handler = "configure_auto_restart"
             /\ \/ request'.cpu_threshold < 1
                \/ request'.cpu_threshold > 100
                \/ request'.memory_threshold_mb < 1
                \/ request'.memory_threshold_mb > 10240
                \/ request'.queue_threshold < 1
                \/ request'.queue_threshold > 1000000
          \/ /\ request'.handler = "set_queue_threshold"
             /\ \/ request'.queue_threshold < 1
                \/ request'.queue_threshold > 1000000
       => /\ response' = "error"
          /\ UNCHANGED <<auto_restart_config, persistent>>]_vars

\* The step in which the queue phase examines pid p (its first locked read
\* and the comparison).
QueueExamines(p) ==
    /\ pc = "queue_phase" /\ running_services # <<>>
    /\ Head(running_services) = p
    /\ <<pc, running_services>>' # <<pc, running_services>>

\* The matched queue of p holds at least n messages in this cycle's reading.
BacklogAtLeast(p, n) ==
    /\ nameOf[p] \in DOMAIN queue_message_counts
    /\ queue_message_counts[nameOf[p]] >= n

\* The queue phase goes on to its marking step for p.
QueueDecides(p) == pc' = "queue_mark" /\ pid' = p

\* The marking step of the queue phase sets restarting=true on the entry of
\* pid and launches a queue restart thread for pid.
QueueLaunches ==
    pc = "queue_mark" /\ pc' # pc
    => /\ pid \in DOMAIN auto_restart_config'
       /\ auto_restart_config'[pid]["restarting"]
       /\ tasks' = tasks (+) SetToBag({NewTask("queue", pid, "queue")})

C7_StaleEntryRemoved ==
    [][pc = "cpu_phase" /\ pc' = "sleep" /\ requests = 0
          => \A p \in stale_at_poll : p \notin DOMAIN auto_restart_config']_vars

\* C8: the cooldown a restart thread sleeps is the one of the breach that
\* launched it: RESTART_DELAY_QUEUE when the queue was over its threshold,
\* RESTART_DELAY_CPU_MEMORY when only CPU and/or memory were.
C8_CooldownByCause ==
    \A t \in BagToSet(tasks) :
        t.pc = "cooldown" =>
            t.delay = IF t.cause = "queue" THEN RESTART_DELAY_QUEUE
                      ELSE RESTART_DELAY_CPU_MEMORY

\* C9: with queue telemetry available, the queue phase launches a restart for
\* a running pid whose matched backlog is >= its queue_threshold (1000 when
\* there is no entry), whether or not an entry exists and whatever its enabled
\* flag; a queue restart thread sleeps RESTART_DELAY_QUEUE.
C9_QueueBreachRestarts ==
    [][/\ \A p \in DOMAIN nameOf :
            (/\ QueueExamines(p)
             /\ ~Restarting(p)
             /\ BacklogAtLeast(p, IF p \in DOMAIN auto_restart_config
                                     /\ "queue_threshold" \in DOMAIN auto_restart_config[p]
                                  THEN auto_restart_config[p]["queue_threshold"]
                                  ELSE 1000))
            => QueueDecides(p)
       /\ QueueLaunches
       /\ \A t \in BagToSet(tasks') :
            t.kind = "queue" /\ t.pc = "cooldown" => t.delay = 60]_vars

\* C9 witness: with no entry at all for pid 1 and a backlog of 1500, the queue
\* phase made the ad hoc entry and its thread is in the 60 s cooldown.
C9_Witness ==
    /\ persistent = EmptyDict
    /\ queue_message_counts = [n \in {"a.jar"} |-> 1500]
    /\ 1 \in DOMAIN auto_restart_config
    /\ auto_restart_config[1] = AdHocEntry(1000, "a.jar")
    /\ \E t \in BagToSet(tasks) :
          /\ t.kind = "queue" /\ t.origin = 1 /\ t.pid = 1
          /\ t.pc = "cooldown" /\ t.delay = 60

\* C10: when the start fails after the stop succeeded, the ending thread
\* leaves the entry of the pid it was launched for in place with
\* restarting=false, adds no entry for another pid, and the process stays down.
C10_StartFailureKeepsEntry ==
    [][\A t \in BagToSet(tasks) :
          t.pc = "start_failed" /\ Finishes(t)
              /\ t.origin \in DOMAIN auto_restart_config
          => /\ t.origin \in DOMAIN auto_restart_config'
             /\ ~auto_restart_config'[t.origin]["restarting"]
             /\ DOMAIN auto_restart_config' \subseteq DOMAIN auto_restart_config
             /\ t.pid \notin alive']_vars

\* C11: when a restart thread ends because the executable file cannot be
\* found, the process it was launched for is stopped and the restarting flag
\* of that pid's entry is false.
C11_NotFoundLeavesStopped ==
    [][\A t \in BagToSet(tasks) :
          t.pc = "resolve_failed" /\ t.jar_name # NoName /\ Finishes(t)
              /\ t.origin \in DOMAIN auto_restart_config
          => /\ t.origin \notin alive'
             /\ t.origin \in DOMAIN auto_restart_config'
             /\ ~auto_restart_config'[t.origin]["restarting"]]_vars

\* The loop is held at a launch only by the bound on the number of restart
\* threads of this model.
LaunchBoundReached ==
    /\ spawned = MaxSpawns
    /\ pc \in {"queue_mark", "cpu_mark"}

\* C12: the evaluation loop never terminates: after a cycle that raised an
\* error the loop waits and begins another cycle, so the top of the while
\* loop is reached again and again.
C12_LoopNeverTerminates == []<>(pc = "sleep" \/ LaunchBoundReached)

\* C12 witness: the loop is in the wait of the error handler.
C12_Witness == pc = "error_wait"

\* C13: a failure raised while one identity is evaluated, in the queue phase
\* or in the CPU/memory phase, does not end the cycle: the other identities
\* of the cycle are still evaluated.
C13_FailureDoesNotAbortCycle ==
    [][(pc \in {"queue_phase", "queue_mark", "cpu_phase", "cpu_delete", "cpu_mark"})
          => (pc' # "error_wait")]_vars

\* A restart thread is between the call of monitor.stop_service and the
\* return of monitor.start_service.
Restarts(t) == t.pc \in {"stop", "cooldown"}

C15_ResponseIsStoredEntry ==
    [][response_config' # response_config /\ request.enabled /\ response = "ok"
          => /\ Get(response_config', "enabled", FALSE)
             /\ Get(response_config', "cpu_threshold", Absent) = request.cpu_threshold
             /\ Get(response_config', "memory_threshold_mb", Absent)
                    = request.memory_threshold_mb]_vars

\* C16: in every reachable state no two pids hold entries of the store for the
\* same service name.
C16_OneEntryPerService ==
    \A p, q \in DOMAIN auto_restart_config : nameOf[p] = nameOf[q] => p = q

\* C17: in a cycle whose telemetry read gave nothing (MSMQ not available, no
\* queue reported or matched, or the read raised), the loop launches no
\* queue-based restart and creates no ad hoc entry, does not take the error
\* path, and its CPU/memory phase visits every entry of the store.
C17_NoTelemetryIsInert ==
    [][/\ (pc = "sleep" /\ pc' # "sleep" /\ pc' # "error_wait"
             /\ (~msmq_available \/ queue_message_counts' = EmptyDict))
          => pc' = "queue_phase" /\ running_services' = <<>>
       /\ (pc \notin {"sleep", "error_wait"}
             /\ (~msmq_available \/ queue_message_counts = EmptyDict))
          => /\ pc' \notin {"queue_mark", "error_wait"}
             /\ \A t \in BagToSet(tasks') :
                   t.kind = "queue" => t \in BagToSet(tasks) \/ t.pc # "begin"
             /\ (pc = "queue_phase" /\ pc' # pc)
                   => /\ pc' = "cpu_phase"
                      /\ {configs_to_check'[i].pid : i \in DOMAIN configs_to_check'}
                            = DOMAIN auto_restart_config]_vars

\* C17 witness: MSMQ is available, the telemetry read of this cycle gave
\* nothing, and the CPU/memory phase is about to examine an enabled entry.
C17_Witness ==
    /\ msmq_available
    /\ queue_message_counts = EmptyDict
    /\ pc = "cpu_phase"
    /\ configs_to_check # <<>>
    /\ Get(Deref(Head(configs_to_check).ref), "enabled", FALSE)

\* C18: after a successful set policy, set queue threshold or disable request
\* for pid p of service n, and after the loop has created an ad hoc queue
\* entry for p, the durable entry of n is the entry of p without its
\* restarting flag, or is absent when p has no entry.
C18_DurableMirrorsStore ==
    [][\A p \in DOMAIN nameOf :
          \/ requests' # requests /\ response' = "ok" /\ request'.pid = p
          \/ /\ pc = "queue_mark" /\ pc' # pc /\ pid = p
             /\ p \notin DOMAIN auto_restart_config
          => IF p \in DOMAIN auto_restart_config'
             THEN /\ nameOf[p] \in DOMAIN persistent'
                  /\ persistent'[nameOf[p]] = PopRestarting(auto_restart_config'[p])
             ELSE nameOf[p] \notin DOMAIN persistent']_vars

\* C19: in every reachable state no entry of the durable map contains the
\* restarting flag, whatever the flag of the store's entry was when the
\* durable entry was saved.
C19_DurableHasNoFlag ==
    \A n \in DOMAIN persistent : "restarting" \notin DOMAIN persistent[n]

\* C19 witness: set_queue_threshold has stored an entry whose restarting flag
\* was true (a restart was in flight) and saved it under the service's name.
C19_Witness ==
    /\ request.handler = "set_queue_threshold"
    /\ response = "ok"
    /\ Get(response_config, "restarting", FALSE)
    /\ nameOf[request.pid] \in DOMAIN persistent
    /\ persistent[nameOf[request.pid]]["queue_threshold"] = request.queue_threshold

\* C20: after an engine start, a cycle that observes a running process whose
\* service name has a durable policy, the store having no entry for its pid,
\* creates the entry from the durable fields: when a cycle ends, no process
\* that has run since the start is left with a durable policy and no entry.
C20_CyclePromotesDurablePolicy ==
    [][(pc # "sleep" /\ pc' = "sleep")
          => \A p \in DOMAIN InitialNames : p \notin Promotable']_vars

\* A successful set_queue_threshold request for pid p is being answered.
QueueThresholdSet(p) ==
    /\ requests' # requests
    /\ request'.handler = "set_queue_threshold"
    /\ request'.pid = p
    /\ response' = "ok"

\* The CPU/memory part of an entry: the fields it carries among enabled,
\* cpu_threshold and memory_threshold_mb.
CpuMemoryFields(e) ==
    [k \in {"enabled", "cpu_threshold", "memory_threshold_mb"} \cap DOMAIN e |-> e[k]]

\* C21 as stated: set_queue_threshold for a pid that has an entry leaves the
\* CPU/memory part of the entry as it was; the defaults appear only for a pid
\* without an entry.
C21_DefaultsOnlyWithoutEntry ==
    [][\A p \in DOMAIN nameOf :
          QueueThresholdSet(p) /\ p \in DOMAIN auto_restart_config
          => CpuMemoryFields(auto_restart_config'[p])
                = CpuMemoryFields(auto_restart_config[p])]_vars

\* C21 amended: set_queue_threshold stores the requested queue_threshold and
\* keeps every one of enabled, cpu_threshold, memory_threshold_mb and
\* restarting that the entry carried; a field the entry did not carry (no
\* entry, or a reduced or ad hoc entry) gets its default.
C21_KeepsCarriedFields ==
    [][\A p \in DOMAIN nameOf :
          QueueThresholdSet(p)
          => LET old == Existing(p)
                 new == auto_restart_config'[p]
             IN /\ new["queue_threshold"] = request'.queue_threshold
                /\ new["enabled"] = Get(old, "enabled", FALSE)
                /\ new["cpu_threshold"] = Get(old, "cpu_threshold", 80)
                /\ new["memory_threshold_mb"] = Get(old, "memory_threshold_mb", 1000)
                /\ new["restarting"] = Get(old, "restarting", FALSE)
                /\ new["jar_name"] \in {nameOf[p], Get(old, "jar_name", NoName)}]_vars

\* C21 witness: a queue threshold was set on an entry that was enabled with a
\* cpu_threshold other than the default, and the entry still has both.
C21_Witness ==
    /\ request.handler = "set_queue_threshold"
    /\ response = "ok"
    /\ request.pid \in DOMAIN auto_restart_config
    /\ auto_restart_config[request.pid]["queue_threshold"] = request.queue_threshold
    /\ Get(auto_restart_config[request.pid], "enabled", FALSE)
    /\ Get(auto_restart_config[request.pid], "cpu_threshold", 80) # 80

\* C22: the config member of the response of a successful
\* configure_auto_restart is the entry the store holds for the pid after the
\* call, the reduced entry a disable leaves included.
C22_ResponseEchoesEntry ==
    [][/\ requests' # requests \/ response_config' # response_config
       /\ request'.handler = "configure_auto_restart"
       /\ response' = "ok"
       /\ response_config' # NoVal
       => response_config' =
             IF request'.pid \in DOMAIN auto_restart_config'
             THEN auto_restart_config'[request'.pid] ELSE EmptyDict]_vars

\* Thread t comes out of a step of the restart protocol: it has just resolved
\* its path, or it was at the stop and the process is now stopped (or the stop
\* failed), or it was in the cooldown after a stop and the new process now
\* runs (or the start failed).
ProtocolStep(t) ==
    \/ /\ t.pc \in {"stop", "resolve_failed"}
       /\ t.new_pid = 0
    \/ /\ t.pc = "cooldown"
       /\ [t EXCEPT !.pc = "stop"] \in BagToSet(tasks)
       /\ t.pid \in alive /\ t.pid \notin alive'
    \/ /\ t.pc = "stop_failed"
       /\ [t EXCEPT !.pc = "stop"] \in BagToSet(tasks)
       /\ alive' = alive
    \/ /\ t.pc = "started"
       /\ [t EXCEPT !.pc = "cooldown", !.new_pid = 0] \in BagToSet(tasks)
       /\ t.new_pid \in alive' \ alive
       /\ nameOf'[t.new_pid] = Resolved(t)
    \/ /\ t.pc = "start_failed"
       /\ [t EXCEPT !.pc = "cooldown"] \in BagToSet(tasks)
       /\ alive' = alive

\* C23: a manual restart runs the resolve, stop, cooldown, start protocol of
\* the automatic restarts for the pid of the request, whatever the store holds
\* for it, and its cooldown is the 120 s of the CPU/memory restarts.
C23_ManualRestartProtocol ==
    [][\A t \in BagToSet(tasks') \ BagToSet(tasks) :
          t.kind = "manual"
          => /\ t.delay = 120
             /\ t.pid = t.origin
             /\ ProtocolStep(t)
             /\ t.pc \in {"stop", "resolve_failed"}
                   => requests' # requests /\ request'.pid = t.pid]_vars

\* C23 witness: a manual restart of a pid that has no policy entry, hence no
\* threshold at all, has stopped the process and is in its cooldown.
C23_Witness ==
    \E t \in BagToSet(tasks) :
        /\ t.kind = "manual"
        /\ t.pc = "cooldown"
        /\ t.pid \notin DOMAIN auto_restart_config
        /\ t.pid \notin alive

\* C24: a manual restart goes through the restarting guard: while it is at its
\* stop or in its cooldown the entry of its pid, if there is one, has
\* restarting = TRUE, and no automatic restart launched for that pid is in
\* progress.
C24_ManualRestartGuarded ==
    \A t \in BagToSet(tasks) :
        t.kind = "manual" /\ t.pc \in {"stop", "cooldown"}
        => /\ t.pid \in DOMAIN auto_restart_config => Restarting(t.pid)
           /\ \A u \in BagToSet(tasks) : u.kind # "manual" => u.origin # t.pid

\* C25: after a save_auto_restart_config(name, policy) that returned True,
\* get_auto_restart_config_by_name(name) returns that policy, the folder path
\* and every other name's policy are what they were; after a
\* save_folder_path that returned True the policy map is what it was.
C25_StorageRoundTrip ==
    [][/\ storage_call'.fn = "save_auto_restart_config" /\ storage_call'.ret
          => /\ get_auto_restart_config_by_name(config_file', storage_call'.name)
                   = storage_call'.arg
             /\ get_folder_path(config_file') = get_folder_path(config_file)
             /\ \A n \in StorageNames \ {storage_call'.name} :
                   get_auto_restart_config_by_name(config_file', n)
                      = get_auto_restart_config_by_name(config_file, n)
       /\ storage_call'.fn = "save_folder_path" /\ storage_call'.ret
          => /\ get_folder_path(config_file') = storage_call'.arg
             /\ load_config(config_file').auto_restart
                   = load_config(config_file).auto_restart]_vars

\* C25 witness: a policy was saved into a file that holds a folder path and
\* the policy of another name.
C25_Witness ==
    /\ storage_call.fn = "save_auto_restart_config"
    /\ storage_call.ret
    /\ get_folder_path(config_file) # NoName
    /\ \E n \in StorageNames \ {storage_call.name} :
          get_auto_restart_config_by_name(config_file, n) # NoVal

\* x is a number of the closed range lo..hi.
Within(x, lo, hi) == x # NaN /\ lo <= x /\ x <= hi

\* C26: every in-memory entry that carries cpu_threshold has it within
\* [1,100], one that carries memory_threshold_mb has it within [1,10240], and
\* one that carries queue_threshold has it within [1,1000000].
C26_StoredThresholdsInRange ==
    \A p \in DOMAIN auto_restart_config :
       LET e == auto_restart_config[p] IN
       /\ "cpu_threshold" \in DOMAIN e
             => Within(e["cpu_threshold"], CPU_THRESHOLD_MIN, CPU_THRESHOLD_MAX)
       /\ "memory_threshold_mb" \in DOMAIN e
             => Within(e["memory_threshold_mb"], MEMORY_THRESHOLD_MIN_MB,
                       MEMORY_THRESHOLD_MAX_MB)
       /\ "queue_threshold" \in DOMAIN e
             => Within(e["queue_threshold"], QUEUE_THRESHOLD_MIN,
                       QUEUE_THRESHOLD_MAX)

\* The breach of the claim that needs no CPU or memory reading: the queue
\* matched to p holds at least the queue_threshold of p's stored entry.
StoredQueueBreach(p) ==
    QueueBreach(queue_message_counts, nameOf[p],
                Get(Existing(p), "queue_threshold", DEFAULT_QUEUE_THRESHOLD))

\* C27: in a cycle, for a running pid whose stored entry is not restarting,
\* the queue phase decides to launch exactly when the matched queue holds at
\* least the entry's queue_threshold (equality included), and the CPU/memory
\* phase decides to launch only when the entry is enabled or that queue
\* breach holds: CPU and memory readings never launch a restart of a pid
\* whose entry says enabled=false.
C27_LaunchExactlyOnBreach ==
    [][/\ \A p \in DOMAIN auto_restart_config :
             QueueExamines(p) /\ p \in alive /\ ~Restarting(p)
             => (pc' = "queue_mark" <=> StoredQueueBreach(p))
       /\ pc = "cpu_phase" /\ pc' = "cpu_mark"
             /\ pid' \in DOMAIN auto_restart_config /\ ~Restarting(pid')
          => \/ Get(Existing(pid'), "enabled", FALSE)
             \/ StoredQueueBreach(pid')]_vars

\* C28: whenever the entry of a pid has restarting=true, later the flag is
\* false or the entry is gone from that pid (removed or migrated), whichever
\* way the restart thread ends; no pid stays skipped by the loop forever.
C28_RestartingEventuallyClears ==
    \A p \in 1..MaxPid : Restarting(p) ~> ~Restarting(p)

\* C29: a restart thread acts on the breach that launched it, whatever the
\* loop has done since: the pid it stops is the pid of that breach, the name
\* the queue thread resolves is that pid's service name, its cooldown is the
\* one of the breach's cause, and when it ends it changes no entry of another
\* pid than that one (and the new pid it migrates to).
C29_TaskActsOnItsBreach ==
    [][\A t \in BagToSet(tasks) :
          /\ t.pc # "begin"
                => /\ t.pid = t.origin
                   /\ t.kind = "queue" => t.jar_name = nameOf[t.origin]
                   /\ t.delay = IF t.cause = "queue" THEN RESTART_DELAY_QUEUE
                                 ELSE RESTART_DELAY_CPU_MEMORY
          /\ Finishes(t)
                => \A p \in DOMAIN auto_restart_config \ {t.origin, t.new_pid} :
                      /\ p \in DOMAIN auto_restart_config'
                      /\ auto_restart_config'[p] = auto_restart_config[p]]_vars

\* The thread records that tasks' holds and tasks does not: threads that
\* were started or took a step of restart_service_internal.
Stepped == {u \in BagToSet(tasks') : CopiesIn(u, tasks') > CopiesIn(u, tasks)}

\* The thread that is now u got to its step in the order of the function.
InOrder(u) ==
    CASE u.pc = "begin" -> UNCHANGED procVars
      [] u.pc \in {"stop", "resolve_failed"} ->
            /\ \E t \in BagToSet(tasks) :
                  t.pc = "begin" /\ u = [t EXCEPT !.pc = u.pc, !.pid = u.pid,
                                            !.jar_name = u.jar_name,
                                            !.delay = u.delay]
            /\ UNCHANGED procVars
      [] u.pc = "cooldown" ->
            /\ [u EXCEPT !.pc = "stop"] \in BagToSet(tasks)
            /\ u.pid \in alive
            /\ alive' = alive \ {u.pid}
      [] u.pc = "stop_failed" ->
            /\ [u EXCEPT !.pc = "stop"] \in BagToSet(tasks)
            /\ UNCHANGED procVars
      [] u.pc = "started" ->
            /\ [u EXCEPT !.pc = "cooldown", !.new_pid = 0] \in BagToSet(tasks)
            /\ u.new_pid \notin alive
            /\ alive' = alive \cup {u.new_pid}
      [] u.pc = "start_failed" ->
            /\ [u EXCEPT !.pc = "cooldown"] \in BagToSet(tasks)
            /\ UNCHANGED procVars

\* C30: a restart thread resolves the executable, then stops the pid, then
\* sleeps its cooldown, then starts the executable: the start happens only in
\* a thread whose own stop killed the process and that is in its sleep, a
\* thread past its stop or its start never stops or starts again, and no
\* process is stopped or started in any other step.
C30_StepsInOrder ==
    [][/\ \A u \in Stepped : InOrder(u)
       /\ alive' # alive
             => \E u \in Stepped : u.pc \in {"cooldown", "started"}]_vars

\* C30 witness: a thread has stopped its pid, slept and started the new
\* process.
C30_Witness ==
    \E t \in BagToSet(tasks) :
       t.pc = "started" /\ t.pid \notin alive /\ t.new_pid \in alive

\* C31: a restart thread whose stop failed has started no process and
\* stopped none; when it ends, the entry of the pid whose breach launched it
\* is still there with restarting=false and its other fields as they were,
\* and no other entry is created.
C31_StopFailureClearsFlag ==
    [][\A t \in BagToSet(tasks) :
          t.pc = "stop_failed" /\ Finishes(t)
              /\ t.origin \in DOMAIN auto_restart_config
          => /\ t.new_pid = 0
             /\ UNCHANGED procVars
             /\ DOMAIN auto_restart_config' = DOMAIN auto_restart_config
             /\ auto_restart_config'[t.origin]
                   = Put(auto_restart_config[t.origin], "restarting", FALSE)]_vars

\* The step in which the queue phase marks pid and starts its thread.
QueueFires == pc = "queue_mark" /\ pc' = "queue_phase" /\ spawned' # spawned

\* C32: when the queue phase fires for a pid without an entry, the store
\* gains exactly the entry {enabled=false, queue_threshold = the threshold
\* compared, jar_name = the service name, restarting=true}; when the pid has
\* an entry, only its restarting flag changes, to true.  The thread started
\* in that step has not acted yet.
C32_QueueFiringMarksEntry ==
    [][QueueFires
       => /\ IF pid \in DOMAIN auto_restart_config
             THEN auto_restart_config' =
                     Put(auto_restart_config, pid,
                         Put(auto_restart_config[pid], "restarting", TRUE))
             ELSE auto_restart_config' =
                     Put(auto_restart_config, pid,
                         [enabled |-> FALSE, queue_threshold |-> queue_threshold,
                          jar_name |-> nameOf[pid], restarting |-> TRUE])
          /\ \E t \in BagToSet(tasks') :
                /\ t.pc = "begin" /\ t.origin = pid /\ t.kind = "queue"
                /\ CopiesIn(t, tasks') = CopiesIn(t, tasks) + 1
          /\ UNCHANGED <<procVars, persistent>>]_vars

\* C32 witness: the queue phase has just created the entry of a pid that had
\* none, and the thread it started has not run yet.
C32_Witness ==
    /\ pc = "queue_phase"
    /\ pid \in DOMAIN auto_restart_config
    /\ auto_restart_config[pid]["restarting"]
    /\ ~auto_restart_config[pid]["enabled"]
    /\ DOMAIN auto_restart_config[pid]
          = {"enabled", "queue_threshold", "jar_name", "restarting"}
    /\ auto_restart_config[pid]["queue_threshold"] = DEFAULT_QUEUE_THRESHOLD
    /\ \E t \in BagToSet(tasks) : t.pc = "begin" /\ t.origin = pid
    /\ requests = 0

\* C33: a configuration request (configure_auto_restart with enabled true
\* or false, set_queue_threshold) leaves the restarting flag of every entry
\* it keeps as it was, also while a restart of that pid is in flight.
C33_RequestsKeepRestarting ==
    [][requests' # requests
       => \A p \in DOMAIN auto_restart_config \cap DOMAIN auto_restart_config' :
             Get(auto_restart_config'[p], "restarting", FALSE) = Restarting(p)]_vars

\* C34: a successful configure_auto_restart with enabled=false on a pid
\* whose entry holds no queue_threshold removes that entry and the durable
\* entry under the service name, and no disable removes a durable entry that
\* holds a queue_threshold.
C34_DisableDeletesOnlyWithoutQueue ==
    [][/\ requests' # requests
       /\ request'.handler = "configure_auto_restart"
       /\ ~request'.enabled
       /\ response' = "ok"
       => /\ request'.pid \in DOMAIN auto_restart_config
               /\ Get(Existing(request'.pid), "queue_threshold", Absent) = Absent
             => /\ request'.pid \notin DOMAIN auto_restart_config'
                /\ \A n \in DOMAIN persistent \ DOMAIN persistent' :
                      Get(persistent[n], "queue_threshold", Absent) = Absent
          /\ \A n \in DOMAIN persistent \ DOMAIN persistent' :
                Get(persistent[n], "queue_threshold", Absent) = Absent]_vars

\* The loop removes the entry of a pid that no longer runs.
StaleRemoval == pc = "cpu_delete" /\ pc' = "cpu_phase"

\* A restart thread that started a new process ends (and migrates).
Migration == \E t \in BagToSet(tasks) : t.pc = "started" /\ Finishes(t)

\* C35: the removal of a stale pid's entry by the loop and the migration of
\* an entry to the new pid by a restart thread leave the durable map as it
\* was.
C35_PidChurnKeepsDurable ==
    [][StaleRemoval \/ Migration => persistent' = persistent]_vars

\* C35 witness: the store has been moved to a pid started by a restart, the
\* old pid's entry is gone, and the durable map still holds the policy of
\* that service name.
C35_Witness ==
    \E p \in DOMAIN auto_restart_config :
       /\ p \notin DOMAIN InitialNames
       /\ nameOf[p] \in DOMAIN persistent
       /\ \A o \in DOMAIN InitialNames :
             nameOf[o] = nameOf[p] => o \notin DOMAIN auto_restart_config
       /\ tasks = EmptyBag

\* C36: when a restart that started a new process ends after a request for
\* the old pid was accepted, the new pid's entry holds the policy stored for
\* the old pid at that moment, with restarting=false, and the old pid's
\* entry is gone; when the old pid has no entry any more, none is created
\* for the new pid.
C36_MigrationCarriesStoredPolicy ==
    [][\A t \in BagToSet(tasks) :
          /\ t.pc = "started" /\ Finishes(t)
          /\ requests > 0 /\ response = "ok" /\ request.pid = t.origin
          => IF t.origin \in DOMAIN auto_restart_config
             THEN /\ t.new_pid \in DOMAIN auto_restart_config'
                  /\ t.origin \notin DOMAIN auto_restart_config'
                  /\ PolicyFields(auto_restart_config'[t.new_pid])
                        = PolicyFields(auto_restart_config[t.origin])
                  /\ ~Get(auto_restart_config'[t.new_pid], "restarting", FALSE)
             ELSE auto_restart_config' = auto_restart_config]_vars

\* The file shows the change writer w made.
Reflects(w) ==
    CASE writers[w].fn = "save_folder_path" ->
            get_folder_path(config_file) = writers[w].arg
      [] writers[w].fn = "save_auto_restart_config" ->
            get_auto_restart_config_by_name(config_file, writers[w].target)
               = writers[w].arg
      [] writers[w].fn = "delete_auto_restart_config" ->
            get_auto_restart_config_by_name(config_file, writers[w].target) = NoVal

\* C37: when two writers that change different things (save_folder_path and
\* a policy writer, or policy writers of two names) have both returned True,
\* the file shows both changes.
C37_NoLostUpdate ==
    (/\ \A w \in Writers : writers[w].pc = "done" /\ writers[w].ret
     /\ writers[1].target # writers[2].target)
    => \A w \in Writers : Reflects(w)

=============================================================================
